---- MODULE Spec2Model ----
(***************************************************************************)
(* Planning Center Kit: the base client PcoClient (construction, request   *)
(* dispatch, the fluent query builder and buildQuery) and the resource     *)
(* module PcoPeople.                                                       *)
(*                                                                         *)
(* Strings that the code inspects character by character (version, token,  *)
(* appId, personalAccessToken, and hence the Authorization value) are      *)
(* sequences of one-character strings.  Strings the code only concatenates *)
(* (endpoints, field names, query strings, URLs, messages) are strings.    *)
(* An optional value is <<>> when absent and <<v>> when present.           *)
(***************************************************************************)
EXTENDS Integers, Sequences, FiniteSets, TLC

VARIABLES client, opLog, chain, calls, fetches, lastInst

vars == <<client, opLog, chain, calls, fetches, lastInst>>

(***************************************************************************)
(* Bounds of the model.                                                    *)
(***************************************************************************)
\* builder calls made in one behaviour
MaxOps == 2
\* terminal actions issued in one behaviour
MaxCalls == 2
\* terminal actions issued in one behaviour of SpecHttp and of SpecConfig
MaxExchanges == 1

Instances == {1, 2}
Chains == {1, 2}

None == <<>>
Some(v) == <<v>>
IsSome(o) == Len(o) = 1
Get(o) == o[1]

(***************************************************************************)
(* Characters.                                                             *)
(***************************************************************************)
UpperSeq ==
  << "A", "B", "C", "D", "E", "F", "G", "H", "I", "J", "K", "L", "M",
     "N", "O", "P", "Q", "R", "S", "T", "U", "V", "W", "X", "Y", "Z" >>
LowerSeq ==
  << "a", "b", "c", "d", "e", "f", "g", "h", "i", "j", "k", "l", "m",
     "n", "o", "p", "q", "r", "s", "t", "u", "v", "w", "x", "y", "z" >>
DigitSeq == << "0", "1", "2", "3", "4", "5", "6", "7", "8", "9" >>

Range(s) == {s[i] : i \in 1..Len(s)}
IndexOf(s, c) == CHOOSE i \in 1..Len(s) : s[i] = c

\* the character's code unit (ASCII)
CharCode(c) ==
  CASE c \in Range(UpperSeq) -> 64 + IndexOf(UpperSeq, c)
    [] c \in Range(LowerSeq) -> 96 + IndexOf(LowerSeq, c)
    [] c \in Range(DigitSeq) -> 47 + IndexOf(DigitSeq, c)
    [] c = " " -> 32
    [] c = "-" -> 45
    [] c = ":" -> 58
    [] c = "_" -> 95

Digits == Range(DigitSeq)
LowerHex == Digits \cup {"a", "b", "c", "d", "e", "f"}

Repeat(s, n) == [i \in 1..n |-> s[((i - 1) % Len(s)) + 1]]

(***************************************************************************)
(* Regular expressions of the constructor: a pattern is a sequence of      *)
(* items [class, count]; both patterns of the code are anchored with ^ and *)
(* $ and have no flags, so a string matches when it has exactly the        *)
(* pattern's characters, position by position.                             *)
(***************************************************************************)
RECURSIVE MatchesFrom(_, _, _)
MatchesFrom(s, p, at) ==
  IF p = <<>> THEN at = Len(s) + 1
  ELSE /\ at + p[1].count - 1 <= Len(s)
       /\ \A k \in at..(at + p[1].count - 1) : s[k] \in p[1].class
       /\ MatchesFrom(s, Tail(p), at + p[1].count)

AnchoredMatch(s, p) == MatchesFrom(s, p, 1)

VersionYear == 4
VersionPart == 2
LegacyTokenLen == 64
CurrentTokenHexLen == 72

Lit(c) == [class |-> {c}, count |-> 1]

\* /^\d{4}-\d{2}-\d{2}$/
VersionPattern ==
  << [class |-> Digits, count |-> VersionYear], Lit("-"),
     [class |-> Digits, count |-> VersionPart], Lit("-"),
     [class |-> Digits, count |-> VersionPart] >>

\* /^[0-9a-f]{64}$/
LegacyTokenPattern == << [class |-> LowerHex, count |-> LegacyTokenLen] >>

TokenPrefix == << "p", "c", "o", "_", "t", "o", "k", "_" >>

\* /^pco_tok_[0-9a-f]{72}$/
CurrentTokenPattern ==
  [i \in 1..Len(TokenPrefix) |-> Lit(TokenPrefix[i])]
    \o << [class |-> LowerHex, count |-> CurrentTokenHexLen] >>

validateTokenUnanchored(token) ==
  \E at \in 1..(Len(token) + 1) :
    \E n \in 0..Len(token) :
      /\ at + n - 1 <= Len(token)
      /\ \/ AnchoredMatch(SubSeq(token, at, at + n - 1), LegacyTokenPattern)
         \/ AnchoredMatch(SubSeq(token, at, at + n - 1), CurrentTokenPattern)

validateToken(token) ==
  \/ AnchoredMatch(token, LegacyTokenPattern)
  \/ AnchoredMatch(token, CurrentTokenPattern)

(***************************************************************************)
(* btoa: base64 of a string of one-byte characters.                        *)
(***************************************************************************)
B64Alphabet == UpperSeq \o LowerSeq \o DigitSeq \o << "+", "/" >>

B64Char(n) == B64Alphabet[n + 1]

RECURSIVE btoa(_)
btoa(s) ==
  IF Len(s) = 0 THEN <<>>
  ELSE LET b1 == CharCode(s[1])
           b2 == IF Len(s) >= 2 THEN CharCode(s[2]) ELSE 0
           b3 == IF Len(s) >= 3 THEN CharCode(s[3]) ELSE 0
           n == b1 * 65536 + b2 * 256 + b3
           c1 == B64Char(n \div 262144)
           c2 == B64Char((n \div 4096) % 64)
           c3 == IF Len(s) >= 2 THEN B64Char((n \div 64) % 64) ELSE "="
           c4 == IF Len(s) >= 3 THEN B64Char(n % 64) ELSE "="
       IN  << c1, c2, c3, c4 >> \o (IF Len(s) > 3 THEN btoa(SubSeq(s, 4, Len(s))) ELSE <<>>)

(***************************************************************************)
(* Construction.  A configuration is a record of optional fields; the      *)
(* constructor reads personalAccessToken, appId, token, customApiBaseUrl   *)
(* and version (clientId, clientSecret, refreshToken and expiresAt are     *)
(* never read).                                                            *)
(***************************************************************************)
Config(pat, appId, token, base, version) ==
  [personalAccessToken |-> pat, appId |-> appId, token |-> token,
   customApiBaseUrl |-> base, version |-> version]

EmptyConfig == Config(None, None, None, None, None)

Chars_Basic == << "B", "a", "s", "i", "c", " " >>
Chars_Bearer == << "B", "e", "a", "r", "e", "r", " " >>
Chars_undefined == << "u", "n", "d", "e", "f", "i", "n", "e", "d" >>

\* `${x}` of an optional string field
Text(o) == IF IsSome(o) THEN Get(o) ELSE Chars_undefined

\* a JavaScript string is truthy when it is not empty
Truthy(o) == IsSome(o) /\ Get(o) # <<>>

DefaultOrder == [field |-> "created_at", symbol |-> ""]
DefaultLimit == 10
DefaultOffset == 0
DefaultPagination == [limit |-> DefaultLimit, offset |-> DefaultOffset]

\* the field initialisers of the class
FreshClient ==
  [status |-> "none", error |-> "", config |-> EmptyConfig,
   customApiBaseUrl |-> None, version |-> None, authentication |-> <<>>,
   includes |-> <<>>, filters |-> <<>>, filtersProto |-> None,
   order |-> DefaultOrder, pagination |-> DefaultPagination]

Thrown(config, message) ==
  [FreshClient EXCEPT !.status = "error", !.error = message, !.config = config]

BasicAuthSwapped(config) ==
  Chars_Basic \o btoa(Text(config.personalAccessToken) \o << ":" >> \o Text(config.appId))

BasicAuth(config) ==
  Chars_Basic \o btoa(Text(config.appId) \o << ":" >> \o Text(config.personalAccessToken))

BearerAuth(config) == Chars_Bearer \o Get(config.token)

\* lines 238-241: the version check passes
VersionAccepted(config) ==
  ~(IsSome(config.version) /\ Truthy(config.version))
    \/ AnchoredMatch(Get(config.version), VersionPattern)

constructor(config) ==
  IF ~VersionAccepted(config) THEN Thrown(config, "Invalid version format")
  ELSE LET version == IF IsSome(config.version) /\ Truthy(config.version)
                      THEN config.version ELSE None
           built(auth) ==
             [FreshClient EXCEPT !.status = "ok", !.config = config,
                                 !.version = version, !.authentication = auth,
                                 \* config.customApiBaseUrl ?? false
                                 !.customApiBaseUrl = config.customApiBaseUrl]
       IN  IF IsSome(config.personalAccessToken) THEN built(BasicAuth(config))
           ELSE IF IsSome(config.token)
                THEN IF ~validateToken(Get(config.token))
                     THEN Thrown(config, "Invalid token format")
                     ELSE built(BearerAuth(config))
                ELSE Thrown(config, "Invalid configuration")

(***************************************************************************)
(* The query builder.  filters is the object's own properties in the order *)
(* of their creation; filtersProto is the object's prototype when it is    *)
(* not Object.prototype (None otherwise), as [operator, value].            *)
(***************************************************************************)
includeAppends(cl, relations) == [cl EXCEPT !.includes = cl.includes \o relations]

\* line 425: this.includes = relations
include(cl, relations) == [cl EXCEPT !.includes = relations]

HasFilter(cl, field) == \E k \in 1..Len(cl.filters) : cl.filters[k].field = field

\* line 441: this.filters[field] = { operator, value }.  Assigning the key
\* '__proto__' runs the setter inherited from Object.prototype, which makes
\* the assigned object the prototype of filters and creates no property.
where(cl, field, operator, value) ==
  LET entry == [field |-> field, operator |-> operator, value |-> value]
  IN  IF field = "__proto__"
      THEN [cl EXCEPT !.filtersProto = Some([operator |-> operator, value |-> value])]
      ELSE IF HasFilter(cl, field)
      THEN [cl EXCEPT !.filters =
              [k \in 1..Len(cl.filters) |->
                 IF cl.filters[k].field = field THEN entry ELSE cl.filters[k]]]
      ELSE [cl EXCEPT !.filters = Append(cl.filters, entry)]

orderSymbolSwapped(direction) == IF direction = "asc" THEN "" ELSE "-"

\* the switch of orderBy
orderSymbol(direction) ==
  CASE direction = "asc" -> "-"
    [] direction = "desc" -> ""
    [] OTHER -> ""

\* direction is optional and defaults to 'desc'
orderBy(cl, field, direction) ==
  LET dir == IF IsSome(direction) THEN Get(direction) ELSE "desc"
  IN  [cl EXCEPT !.order = [field |-> field, symbol |-> orderSymbol(dir)]]

paginate(cl, limit, offset) ==
  [cl EXCEPT !.pagination = [limit |-> limit, offset |-> offset]]

(***************************************************************************)
(* A query string is built as a sequence of non-empty pieces; QueryString  *)
(* is the string itself.                                                   *)
(***************************************************************************)
Piece(str) == IF str = "" THEN <<>> ELSE << str >>

RECURSIVE Flatten(_)
Flatten(parts) == IF parts = <<>> THEN "" ELSE parts[1] \o Flatten(Tail(parts))

\* Array.prototype.join(',')
RECURSIVE JoinComma(_)
JoinComma(list) ==
  IF list = <<>> THEN <<>>
  ELSE IF Len(list) = 1 THEN Piece(list[1])
  ELSE Piece(list[1]) \o << "," >> \o JoinComma(Tail(list))

\* property keys that are array indices, which for..in visits first, in
\* ascending order
ArrayIndexKeys == << "0", "1", "2", "3", "4", "5", "6", "7", "8", "9" >>

IsArrayIndex(field) == \E n \in 1..Len(ArrayIndexKeys) : ArrayIndexKeys[n] = field

RECURSIVE IndexKeyed(_, _)
IndexKeyed(filters, n) ==
  IF n > Len(ArrayIndexKeys) THEN <<>>
  ELSE LET Keyed(entry) == entry.field = ArrayIndexKeys[n]
       IN  SelectSeq(filters, Keyed) \o IndexKeyed(filters, n + 1)

\* own properties as for..in visits them
OwnEntries(filters) ==
  LET Named(entry) == ~IsArrayIndex(entry.field)
  IN  IndexKeyed(filters, 1) \o SelectSeq(filters, Named)

\* for..in goes on to the enumerable properties of the prototype that no own
\* property shadows; this.filters[field] is then a string, whose .operator
\* and .value are undefined
InheritedEntries(cl) ==
  IF ~IsSome(cl.filtersProto) THEN <<>>
  ELSE LET Visited(name) ==
             IF HasFilter(cl, name) THEN <<>>
             ELSE << [field |-> name, operator |-> "undefined", value |-> "undefined"] >>
       IN  Visited("operator") \o Visited("value")

\* line 490: for (let field in this.filters)
ForIn(cl) == OwnEntries(cl.filters) \o InheritedEntries(cl)

RECURSIVE FilterParts(_)
FilterParts(filters) ==
  IF filters = <<>> THEN <<>>
  ELSE << "&", "where[", filters[1].field, "]" >>
         \o Piece(filters[1].operator) \o Piece(filters[1].value)
         \o FilterParts(Tail(filters))

QueryParts(cl) ==
  << "?", "include=" >> \o JoinComma(cl.includes)
    \o FilterParts(ForIn(cl))
    \o << "&", "order=" >> \o Piece(cl.order.symbol) \o Piece(cl.order.field)
    \o << "&", "limit=", ToString(cl.pagination.limit),
          "&", "offset=", ToString(cl.pagination.offset) >>

\* lines 498-501: clean up the attributes
ResetBuilder(cl) ==
  [cl EXCEPT !.includes = <<>>, !.filters = <<>>, !.filtersProto = None,
             !.order = DefaultOrder, !.pagination = DefaultPagination]

buildQueryNoReset(cl) == [query |-> QueryParts(cl), client |-> cl]

buildQueryKeepsFilters(cl) ==
  [query |-> QueryParts(cl),
   client |-> [ResetBuilder(cl) EXCEPT !.filters = cl.filters]]

\* returns the query and leaves the builder reset
buildQuery(cl) == [query |-> QueryParts(cl), client |-> ResetBuilder(cl)]

BuilderIsDefault(cl) ==
  /\ cl.includes = <<>>
  /\ cl.filters = <<>> /\ cl.filtersProto = None
  /\ cl.order = [field |-> "created_at", symbol |-> ""]
  /\ cl.pagination = [limit |-> 10, offset |-> 0]

(***************************************************************************)
(* request, up to its call of fetch.                                       *)
(***************************************************************************)
NoHeaders == [k \in {} |-> ""]

\* {...a, ...b}
Spread(a, b) ==
  [k \in (DOMAIN a) \cup (DOMAIN b) |-> IF k \in DOMAIN b THEN b[k] ELSE a[k]]

Header(name, value) == [k \in {name} |-> value]

DefaultBaseUrl == "https://api.planningcenteronline.com"

Options(method, body) == [method |-> method, body |-> body, headers |-> NoHeaders]

apiBaseUrlIgnoresCustom(cl) == DefaultBaseUrl

apiBaseUrl(cl) ==
  IF IsSome(cl.customApiBaseUrl) /\ Get(cl.customApiBaseUrl) # ""
  THEN Get(cl.customApiBaseUrl) ELSE DefaultBaseUrl

requestHeaders(cl, options) ==
  LET withVersion == IF IsSome(cl.version)
                     THEN Spread(options.headers, Header("X-PCO-API-Version", Get(cl.version)))
                     ELSE options.headers
  IN  Spread(withVersion,
             Spread(Header("Content-Type", "application/json"),
                    Header("Authorization", cl.authentication)))

\* the arguments of fetch
fetchArgs(cl, endpoint, options) ==
  [url |-> apiBaseUrl(cl) \o endpoint,
   method |-> options.method, body |-> options.body,
   headers |-> requestHeaders(cl, options)]

(***************************************************************************)
(* The terminal actions.  A request body is an object given as its         *)
(* <<key, value>> pairs, all strings.                                      *)
(***************************************************************************)
Quoted(str) == "\"" \o str \o "\""

RECURSIVE JsonMembers(_)
JsonMembers(body) ==
  IF body = <<>> THEN ""
  ELSE Quoted(body[1][1]) \o ":" \o Quoted(body[1][2])
         \o (IF Len(body) > 1 THEN "," ELSE "") \o JsonMembers(Tail(body))

\* JSON.stringify of such an object
JsonStringify(body) == "{" \o JsonMembers(body) \o "}"

PeopleEndpoint == "/people/v2/people"

Verbs == {"get", "post", "patch", "delete", "getPerson"}

\* the options each verb hands to request
verbOptions(verb, body) ==
  CASE verb = "post" -> Options(Some("POST"), Some(JsonStringify(body)))
    [] verb = "patch" -> Options(Some("PATCH"), Some(JsonStringify(body)))
    [] verb = "delete" -> Options(Some("DELETE"), None)
    [] OTHER -> Options(None, None)

\* getPerson hard-codes its endpoint
verbEndpoint(verb, endpoint) == IF verb = "getPerson" THEN PeopleEndpoint ELSE endpoint

(***************************************************************************)
(* The HTTP exchange.  fetch rejects on a transport failure and otherwise  *)
(* resolves to a response [status, statusText, body]; response.json()      *)
(* parses the body text.                                                   *)
(***************************************************************************)
EmptyListText == "{\"data\":[],\"meta\":{\"total_count\":0}}"
NotFoundText == "{\"errors\":[{\"status\":\"404\",\"title\":\"Not Found\"}]}"

EmptyListJson == [data |-> <<>>, meta |-> [total_count |-> 0]]
NotFoundJson == [errors |-> << [status |-> "404", title |-> "Not Found"] >>]

\* JSON.parse on the body texts of the model; None is a SyntaxError
JsonParse(text) ==
  CASE text = EmptyListText -> Some(EmptyListJson)
    [] text = NotFoundText -> Some(NotFoundJson)
    [] OTHER -> None

Response(status, statusText, body) ==
  [status |-> status, statusText |-> statusText, body |-> body]

\* Response.ok
responseOk(response) == response.status >= 200 /\ response.status <= 299

NetworkError == [name |-> "TypeError", message |-> << "fetch failed" >>]
JsonError == [name |-> "SyntaxError", message |-> << "Unexpected end of JSON input" >>]
NoError == [name |-> "", message |-> <<>>]

\* line 335
apiError(response) ==
  [name |-> "Error",
   message |-> << "API request failed with status ", ToString(response.status),
                  "\n", response.statusText,
                  "\nMore details: https://developer.planning.center/docs/#/overview/errors" >>]

(***************************************************************************)
(* State.                                                                  *)
(*   client[i]   the fields of instance i (status "none" before its        *)
(*               construction, "error" when its constructor threw)         *)
(*   opLog[i]    the builder calls made on i since its last buildQuery     *)
(*   chain[c]    the call chain a caller c is in the middle of             *)
(*   calls       the terminal actions called, each with its promise        *)
(*   fetches     the HTTP calls issued                                     *)
(*   lastInst    the instance the last step acted on                       *)
(***************************************************************************)
IdleChain == [state |-> "idle", inst |-> 0, overlapped |-> FALSE, own |-> <<>>]

Init ==
  /\ client = [i \in Instances |-> FreshClient]
  /\ opLog = [i \in Instances |-> <<>>]
  /\ chain = [c \in Chains |-> IdleChain]
  /\ calls = <<>>
  /\ fetches = <<>>
  /\ lastInst = 0

WriteFieldsStatic(i, cl) ==
  [j \in Instances |->
     IF j = i THEN cl
     ELSE IF client[j].status # "ok" THEN client[j]
     ELSE [client[j] EXCEPT !.includes = cl.includes, !.filters = cl.filters,
                            !.order = cl.order, !.pagination = cl.pagination]]

\* the fields are instance fields: a method writes those of its own instance
WriteFields(i, cl) == [client EXCEPT ![i] = cl]

Construct(i, config) ==
  /\ client[i].status = "none"
  /\ client' = WriteFields(i, constructor(config))
  /\ lastInst' = i
  /\ UNCHANGED <<opLog, chain, calls, fetches>>

\* a chain stays on the instance it started on
CanActOn(c, i) ==
  /\ client[i].status = "ok"
  /\ chain[c].state = "idle" \/ chain[c].inst = i

OthersActive(c, i) ==
  \E d \in Chains \ {c} : chain[d].state = "building" /\ chain[d].inst = i

MarkOthers(c, i, mine) ==
  [d \in Chains |->
     IF d = c THEN mine
     ELSE IF chain[d].state = "building" /\ chain[d].inst = i
          THEN [chain[d] EXCEPT !.overlapped = TRUE]
          ELSE chain[d]]

RECURSIVE OpsInCalls(_)
OpsInCalls(cs) == IF cs = <<>> THEN 0 ELSE Len(cs[1].ops) + OpsInCalls(Tail(cs))

RECURSIVE OpsPending(_)
OpsPending(S) ==
  IF S = {} THEN 0
  ELSE LET i == CHOOSE j \in S : TRUE
       IN  Len(opLog[i]) + OpsPending(S \ {i})

\* the builder calls made so far, on every instance
OpsSoFar == OpsInCalls(calls) + OpsPending(Instances)

Op(c, name, relations, field, operator, value, direction, limit, offset) ==
  [chain |-> c, op |-> name, relations |-> relations, field |-> field,
   operator |-> operator, value |-> value, direction |-> direction,
   limit |-> limit, offset |-> offset]

\* what a builder call does to the fields of the instance
applyOp(cl, op) ==
  CASE op.op = "include" -> include(cl, op.relations)
    [] op.op = "where" -> where(cl, op.field, op.operator, op.value)
    [] op.op = "orderBy" -> orderBy(cl, op.field, op.direction)
    [] op.op = "paginate" -> paginate(cl, op.limit, op.offset)

BuilderCall(c, i, op) ==
  /\ CanActOn(c, i)
  /\ OpsSoFar < MaxOps
  /\ client' = WriteFields(i, applyOp(client[i], op))
  /\ opLog' = [opLog EXCEPT ![i] = Append(opLog[i], op)]
  /\ chain' = MarkOthers(c, i,
                [state |-> "building", inst |-> i,
                 overlapped |-> chain[c].overlapped \/ OthersActive(c, i),
                 own |-> Append(chain[c].own, op)])
  /\ lastInst' = i
  /\ UNCHANGED <<calls, fetches>>

Include(c, i, relations) ==
  BuilderCall(c, i, Op(c, "include", relations, "", "", "", None, 0, 0))

Where(c, i, field, operator, value) ==
  BuilderCall(c, i, Op(c, "where", <<>>, field, operator, value, None, 0, 0))

OrderBy(c, i, field, direction) ==
  BuilderCall(c, i, Op(c, "orderBy", <<>>, field, "", "", direction, 0, 0))

Paginate(c, i, limit, offset) ==
  BuilderCall(c, i, Op(c, "paginate", <<>>, "", "", "", None, limit, offset))

\* get, post, patch, delete, getPerson: buildQuery, then request up to fetch
Terminal(c, i, verb, endpoint, body) ==
  /\ CanActOn(c, i)
  /\ Len(calls) < MaxCalls
  /\ LET built == buildQuery(client[i])
         args == fetchArgs(built.client,
                           verbEndpoint(verb, endpoint) \o Flatten(built.query),
                           verbOptions(verb, body))
     IN  /\ client' = WriteFields(i, built.client)
         /\ calls' = Append(calls,
                [inst |-> i, chain |-> c, verb |-> verb,
                 endpoint |-> verbEndpoint(verb, endpoint),
                 ops |-> opLog[i], own |-> chain[c].own,
                 overlapped |-> chain[c].overlapped \/ OthersActive(c, i),
                 queries |-> << built.query >>,
                 state |-> "pending", value |-> None, error |-> NoError])
         /\ fetches' = Append(fetches,
                [call |-> Len(calls) + 1, url |-> args.url, method |-> args.method,
                 body |-> args.body, headers |-> args.headers,
                 state |-> "pending", response |-> None])
  /\ opLog' = [opLog EXCEPT ![i] = <<>>]
  /\ chain' = MarkOthers(c, i, IdleChain)
  /\ lastInst' = i

Settled(k, state, value, error) ==
  calls' = [calls EXCEPT ![k].state = state, ![k].value = value, ![k].error = error]

afterAwaitResets(cl) == ResetBuilder(cl)

\* lines 334-338: past its await, request reads the response and assigns no
\* field of the instance
afterAwait(cl) == cl

Resumed(f) ==
  LET i == calls[fetches[f].call].inst
  IN  client' = WriteFields(i, afterAwait(client[i]))

\* fetch rejects: the rejection leaves request unchanged
FetchFails(f) ==
  /\ f \in 1..Len(fetches)
  /\ fetches[f].state = "pending"
  /\ fetches' = [fetches EXCEPT ![f].state = "done"]
  /\ Settled(fetches[f].call, "rejected", None, NetworkError)
  /\ lastInst' = calls[fetches[f].call].inst
  /\ Resumed(f)
  /\ UNCHANGED <<opLog, chain>>

\* fetch resolves: lines 334-338 up to response.json()
FetchResponds(f, response) ==
  /\ f \in 1..Len(fetches)
  /\ fetches[f].state = "pending"
  /\ IF responseOk(response)
     THEN /\ fetches' = [fetches EXCEPT ![f].state = "body", ![f].response = Some(response)]
          /\ UNCHANGED calls
     ELSE /\ fetches' = [fetches EXCEPT ![f].state = "done", ![f].response = Some(response)]
          /\ Settled(fetches[f].call, "rejected", None, apiError(response))
  /\ lastInst' = calls[fetches[f].call].inst
  /\ Resumed(f)
  /\ UNCHANGED <<opLog, chain>>

\* response.json() settles
JsonSettles(f) ==
  /\ f \in 1..Len(fetches)
  /\ fetches[f].state = "body"
  /\ LET parsed == JsonParse(Get(fetches[f].response).body)
     IN  IF IsSome(parsed)
         THEN Settled(fetches[f].call, "resolved", parsed, NoError)
         ELSE Settled(fetches[f].call, "rejected", None, JsonError)
  /\ fetches' = [fetches EXCEPT ![f].state = "done"]
  /\ lastInst' = calls[fetches[f].call].inst
  /\ Resumed(f)
  /\ UNCHANGED <<opLog, chain>>

(***************************************************************************)
(* Inputs.                                                                 *)
(***************************************************************************)
Chars_app == << "a", "p", "p" >>
Chars_secret == << "s", "e", "c", "r", "e", "t" >>
Chars_version == << "2", "0", "2", "4", "-", "0", "6", "-", "0", "9" >>

LegacyToken == Repeat(<< "0", "9", "a", "f" >>, LegacyTokenLen)
CurrentToken == TokenPrefix \o Repeat(<< "0", "9", "a", "f" >>, CurrentTokenHexLen)

CustomBaseUrl == "https://pco.example.test"

PatConfig == Config(Some(Chars_secret), Some(Chars_app), None, None, None)
OAuthConfig == Config(None, None, Some(CurrentToken), Some(CustomBaseUrl), Some(Chars_version))

IncludeSamples == { << "emails" >>, << "phone_numbers", "emails" >> }
WhereSamples ==
  { << "search_name_or_email", "=", "a@example.com" >>,
    << "search_name_or_email", "=", "b@example.com" >>,
    << "status", "[ne]=", "inactive" >> }
OrderSamples ==
  { << "created_at", Some("asc") >>, << "created_at", Some("desc") >>, << "name", None >> }
PageSamples == { << 25, 50 >> }
BodySamples == { << << "name", "John Doe" >> >> }

OkResponse == Response(200, "OK", EmptyListText)

ResponseSamples ==
  { OkResponse,
    Response(204, "No Content", ""),
    Response(404, "Not Found", NotFoundText) }

(***************************************************************************)
(* Spec: one instance driven by one caller, with the builder's inputs.     *)
(***************************************************************************)
Next ==
  \/ Construct(1, PatConfig)
  \/ \E relations \in IncludeSamples : Include(1, 1, relations)
  \/ \E w \in WhereSamples : Where(1, 1, w[1], w[2], w[3])
  \/ \E o \in OrderSamples : OrderBy(1, 1, o[1], o[2])
  \/ \E page \in PageSamples : Paginate(1, 1, page[1], page[2])
  \/ Terminal(1, 1, "getPerson", PeopleEndpoint, <<>>)
  \/ \E f \in 1..Len(fetches) : FetchResponds(f, OkResponse)
  \/ \E f \in 1..Len(fetches) : JsonSettles(f)

Spec == Init /\ [][Next]_vars

(***************************************************************************)
(* SpecHttp: one instance and one caller, every verb and every outcome of  *)
(* the HTTP exchange, under each kind of configuration.                    *)
(***************************************************************************)
EmptyBaseConfig == Config(Some(Chars_secret), Some(Chars_app), None, Some(""), None)

HttpTargets ==
  { << "get", "/people/v2" >>, << "post", "/people/v2" >>,
    << "patch", "/people/v2/1" >>, << "delete", "/people/v2/1" >>,
    << "getPerson", PeopleEndpoint >> }

BothConfig == Config(Some(Chars_secret), Some(Chars_app), Some(CurrentToken), None, None)
NoAppIdConfig == Config(Some(Chars_secret), None, None, None, None)

HttpConfigs == { PatConfig, OAuthConfig, EmptyBaseConfig }

NextHttp ==
  \/ \E config \in HttpConfigs : Construct(1, config)
  \/ Include(1, 1, << "emails" >>)
  \/ OrderBy(1, 1, "name", Some("asc"))
  \/ \E t \in HttpTargets, body \in BodySamples :
       Len(calls) < MaxExchanges /\ Terminal(1, 1, t[1], t[2], body)
  \/ \E f \in 1..Len(fetches) : FetchFails(f)
  \/ \E f \in 1..Len(fetches), response \in ResponseSamples : FetchResponds(f, response)
  \/ \E f \in 1..Len(fetches) : JsonSettles(f)

SpecHttp == Init /\ [][NextHttp]_vars

(***************************************************************************)
(* SpecRace: two callers chain on the same instance.                       *)
(***************************************************************************)
Callers == {1, 2}

NextRace ==
  \/ Construct(1, PatConfig)
  \/ \E c \in Callers : Include(c, 1, << "emails" >>)
  \/ \E c \in Callers : OrderBy(c, 1, "name", Some("asc"))
  \/ \E c \in Callers : Terminal(c, 1, "getPerson", PeopleEndpoint, <<>>)
  \/ \E f \in 1..Len(fetches) : FetchResponds(f, OkResponse)
  \/ \E f \in 1..Len(fetches) : JsonSettles(f)

SpecRace == Init /\ [][NextRace]_vars

(***************************************************************************)
(* SpecFleet: two instances, differently configured, each with a caller   *)
(* of its own.                                                             *)
(***************************************************************************)
FleetConfig(i) == IF i = 1 THEN PatConfig ELSE OAuthConfig

NextFleet ==
  \/ \E i \in Instances : Construct(i, FleetConfig(i))
  \/ \E i \in Instances : Include(i, i, << "emails" >>)
  \/ \E i \in Instances : Where(i, i, "status", "=", "active")
  \/ \E i \in Instances : Terminal(i, i, "getPerson", PeopleEndpoint, <<>>)
  \/ \E f \in 1..Len(fetches) : FetchFails(f)
  \/ \E f \in 1..Len(fetches) : FetchResponds(f, OkResponse)
  \/ \E f \in 1..Len(fetches) : JsonSettles(f)

SpecFleet == Init /\ [][NextFleet]_vars

(***************************************************************************)
(* SpecConfig: construction from every sample configuration, followed by   *)
(* builder calls and requests.  The version and token samples are the well-formed ones and   *)
(* every string one edit away from them.                                   *)
(***************************************************************************)
Substitutions(str, chars) ==
  {[str EXCEPT ![at] = c] : at \in 1..Len(str), c \in chars}
Deletions(str) ==
  {SubSeq(str, 1, at - 1) \o SubSeq(str, at + 1, Len(str)) : at \in 1..Len(str)}
Insertions(str, chars) ==
  {SubSeq(str, 1, at - 1) \o << c >> \o SubSeq(str, at, Len(str)) :
     at \in 1..(Len(str) + 1), c \in chars}
Edits(str, chars) ==
  Substitutions(str, chars) \cup Deletions(str) \cup Insertions(str, chars)

VersionTexts ==
  {<<>>, Chars_version} \cup Edits(Chars_version, {"1", "-", "x", "\n"})

TokenTexts ==
  {<<>>, LegacyToken, CurrentToken, TokenPrefix \o LegacyToken,
   Repeat(<< "a" >>, CurrentTokenHexLen),
   Repeat(<< "a" >>, Len(TokenPrefix) + CurrentTokenHexLen)}
    \cup Edits(LegacyToken, {"0", "g", "A", "\n"})
    \cup Edits(CurrentToken, {"0", "g", "A", "\n"})

BadToken == Repeat(<< "g" >>, LegacyTokenLen)

ConfigSamples ==
  {Config(None, None, Some(t), None, None) : t \in TokenTexts}
    \cup {Config(None, None, Some(t), Some(CustomBaseUrl), Some(v)) :
            t \in {LegacyToken, CurrentToken, BadToken}, v \in VersionTexts}
    \cup {Config(Some(Chars_secret), Some(Chars_app), None, None, Some(v)) : v \in VersionTexts}
    \cup {Config(None, None, None, None, v) :
            v \in {None, Some(Chars_version), Some(<< "x" >>)}}
    \cup {PatConfig, BothConfig, NoAppIdConfig}

NextConfig ==
  \/ \E config \in ConfigSamples : Construct(1, config)
  \/ OrderBy(1, 1, "name", Some("asc"))
  \/ Len(calls) < MaxExchanges /\ Terminal(1, 1, "getPerson", PeopleEndpoint, <<>>)
  \/ \E f \in 1..Len(fetches) : FetchFails(f)
  \/ \E f \in 1..Len(fetches) : FetchResponds(f, OkResponse)
  \/ \E f \in 1..Len(fetches) : JsonSettles(f)

SpecConfig == Init /\ [][NextConfig]_vars

(***************************************************************************)
(* SpecBuilder: one instance and one caller, the builder driven with many  *)
(* include lists and filters; the requests stay in flight.                 *)
(***************************************************************************)
IncludeLists ==
  { <<>>, << "emails" >>, << "phone_numbers" >>,
    << "phone_numbers", "emails" >>, << "emails", "phone_numbers" >> }

WhereInputs ==
  WhereSamples
    \cup { << "7", "=", "x" >>, << "__proto__", "=", "x" >>, << "operator", "=", "y" >> }

NextBuilder ==
  \/ Construct(1, PatConfig)
  \/ \E relations \in IncludeLists : Include(1, 1, relations)
  \/ \E w \in WhereInputs : Where(1, 1, w[1], w[2], w[3])
  \/ OrderBy(1, 1, "name", Some("asc"))
  \/ Paginate(1, 1, 25, 50)
  \/ Terminal(1, 1, "getPerson", PeopleEndpoint, <<>>)

SpecBuilder == Init /\ [][NextBuilder]_vars

(***************************************************************************)
(* SpecFlight: two callers on one instance, with builder calls and         *)
(* terminal actions made while earlier requests are in flight, and every   *)
(* outcome of a request.                                                   *)
(***************************************************************************)
FlightResponses == { OkResponse, Response(404, "Not Found", NotFoundText) }

NextFlight ==
  \/ Construct(1, PatConfig)
  \/ \E c \in Callers : Include(c, 1, << "emails" >>)
  \/ Where(1, 1, "status", "=", "active")
  \/ \E c \in Callers : Terminal(c, 1, "getPerson", PeopleEndpoint, <<>>)
  \/ \E f \in 1..Len(fetches) : FetchFails(f)
  \/ \E f \in 1..Len(fetches), response \in FlightResponses : FetchResponds(f, response)
  \/ \E f \in 1..Len(fetches) : JsonSettles(f)

SpecFlight == Init /\ [][NextFlight]_vars

(***************************************************************************)
(* Vocabulary of the properties.                                           *)
(***************************************************************************)
DefaultQueryString == "?include=&order=created_at&limit=10&offset=0"

\* sub occurs in parts as a run of consecutive pieces
Contains(parts, sub) ==
  \E at \in 0..(Len(parts) - Len(sub)) :
    \A j \in 1..Len(sub) : parts[at + j] = sub[j]

Occurrences(parts, piece) == Cardinality({j \in 1..Len(parts) : parts[j] = piece})

RECURSIVE Replay(_, _)
\* the fields after the builder calls ops, made in order from cl
Replay(cl, ops) == IF ops = <<>> THEN cl ELSE Replay(applyOp(cl, ops[1]), Tail(ops))

IsOrderBy(op) == op.op = "orderBy"

QueryOf(k) == calls[k].queries[1]

EarlierCallOn(k) == \E j \in 1..(k - 1) : calls[j].inst = calls[k].inst

(***************************************************************************)
(* C1.  After a call of buildQuery the builder fields are the defaults:    *)
(* whenever no builder method was called on an instance since its last     *)
(* buildQuery, includes = [], filters = {}, order = created_at with no     *)
(* symbol, pagination = 10/0; and a buildQuery that follows another with   *)
(* no builder call in between returns                                      *)
(* '?include=&order=created_at&limit=10&offset=0'.                         *)
(***************************************************************************)
C1_ResetAfterBuildQuery ==
  \A k \in 1..Len(calls) :
    /\ opLog[calls[k].inst] = <<>> => BuilderIsDefault(client[calls[k].inst])
    /\ (calls[k].ops = <<>> /\ EarlierCallOn(k))
         => Flatten(QueryOf(k)) = DefaultQueryString

C1_Witness ==
  /\ Len(calls) = 2
  /\ Len(calls[1].ops) = 2
  /\ \E j \in 1..2 : calls[1].ops[j].op = "where"
  /\ Flatten(QueryOf(1)) # DefaultQueryString
  /\ calls[2].ops = <<>>
  /\ BuilderIsDefault(client[1])

(***************************************************************************)
(* C10.  The query of every terminal action has exactly one order segment: *)
(* 'order=created_at' when orderBy was not called since the last           *)
(* buildQuery, and otherwise that of the last orderBy call, 'order=-f' for *)
(* direction asc and 'order=f' for desc or no direction.                   *)
(***************************************************************************)
C10_OrderSegment ==
  \A k \in 1..Len(calls) :
    LET q == QueryOf(k)
        os == SelectSeq(calls[k].ops, IsOrderBy)
        last == os[Len(os)]
    IN  /\ Occurrences(q, "order=") = 1
        /\ IF os = <<>> THEN Contains(q, << "&", "order=", "created_at", "&" >>)
           ELSE IF last.direction = Some("asc")
                THEN Contains(q, << "&", "order=", "-", last.field, "&" >>)
                ELSE Contains(q, << "&", "order=", last.field, "&" >>)

C10_Witness ==
  \E k \in 1..Len(calls) :
    /\ Len(calls[k].ops) = 2
    /\ calls[k].ops[1].op = "orderBy" /\ calls[k].ops[1].field = "name"
    /\ calls[k].ops[2].op = "orderBy" /\ calls[k].ops[2].field = "created_at"
    /\ calls[k].ops[2].direction = Some("asc")
    /\ Flatten(QueryOf(k)) = "?include=&order=-created_at&limit=10&offset=0"

(***************************************************************************)
(* C2.  When the promise of a terminal action settles (resolved, rejected  *)
(* with an API error, rejected by the transport or by the body parser) and *)
(* no builder method was called on the instance since that terminal        *)
(* action's buildQuery, the builder fields are the defaults.               *)
(***************************************************************************)
C2_ClearedAfterRequest ==
  [][\A k \in 1..Len(calls) :
       (/\ calls[k].state = "pending"
        /\ calls'[k].state # "pending"
        /\ opLog'[calls[k].inst] = <<>>)
         => BuilderIsDefault(client'[calls[k].inst])]_vars

C2_Witness ==
  \E k \in 1..Len(calls) :
    /\ calls[k].state = "rejected"
    /\ calls[k].error = NetworkError
    /\ Len(calls[k].ops) = 2
    /\ opLog[calls[k].inst] = <<>>
    /\ BuilderIsDefault(client[calls[k].inst])

(***************************************************************************)
(* C8.  Every finished HTTP exchange settles its terminal action as        *)
(* follows: a transport failure rejects with the transport's own error; a  *)
(* non-2xx response rejects with an Error whose message carries the status *)
(* code and the status text; a 2xx response resolves to the parsed JSON    *)
(* body.                                                                   *)
(***************************************************************************)
C8_Outcome ==
  \A f \in 1..Len(fetches) :
    fetches[f].state = "done" =>
      LET call == calls[fetches[f].call]
          r == Get(fetches[f].response)
      IN  IF fetches[f].response = None
          THEN call.state = "rejected" /\ call.error = NetworkError
          ELSE IF r.status < 200 \/ r.status > 299
               THEN /\ call.state = "rejected"
                    /\ call.error.name = "Error"
                    /\ Contains(call.error.message, << ToString(r.status) >>)
                    /\ Contains(call.error.message, << r.statusText >>)
               ELSE /\ call.state = "resolved"
                    /\ IsSome(JsonParse(r.body))
                    /\ call.value = JsonParse(r.body)

(***************************************************************************)
(* C9.  Every terminal action called buildQuery once and issued exactly    *)
(* one HTTP call, whatever became of it, to the URL made of the base URL   *)
(* (the configured custom one, else https://api.planningcenteronline.com), *)
(* the endpoint, and the query string of the builder calls made since the  *)
(* previous buildQuery.                                                    *)
(***************************************************************************)
ConfiguredBase(config) ==
  IF IsSome(config.customApiBaseUrl) /\ Get(config.customApiBaseUrl) # ""
  THEN Get(config.customApiBaseUrl)
  ELSE "https://api.planningcenteronline.com"

FetchesOf(k) == {f \in 1..Len(fetches) : fetches[f].call = k}

OwnQuery(k) == QueryParts(Replay(FreshClient, calls[k].own))

C3_MismatchOnlyWhenInterleaved ==
  \A k \in 1..Len(calls) : QueryOf(k) # OwnQuery(k) => calls[k].overlapped

C3_Witness ==
  \E k1, k2 \in 1..Len(calls) :
    /\ calls[k1].inst = calls[k2].inst
    /\ calls[k1].chain # calls[k2].chain
    /\ calls[k1].own = <<>>
    /\ Flatten(QueryOf(k1)) = "?include=emails&order=created_at&limit=10&offset=0"
    /\ Len(calls[k2].own) = 1
    /\ calls[k2].own[1].op = "include"
    /\ Flatten(QueryOf(k2)) = DefaultQueryString

(***************************************************************************)
(* C4.  A step of one instance (a builder call, a terminal action or the   *)
(* completion of one of its requests) leaves every other instance's fields *)
(* (includes, filters, order, pagination, authentication, version, base    *)
(* URL), pending builder calls and requests unchanged; and the query of    *)
(* every request is the one of the builder calls made on its own instance  *)
(* since that instance's previous buildQuery.                              *)
(***************************************************************************)
CallsOn(cs, b) == SelectSeq(cs, LAMBDA call : call.inst = b)
FetchesOn(fs, cs, b) == SelectSeq(fs, LAMBDA fetch : cs[fetch.call].inst = b)

C4_Isolation ==
  /\ [](\A k \in 1..Len(calls) :
          QueryOf(k) = QueryParts(Replay(FreshClient, calls[k].ops)))
  /\ [][\A b \in Instances :
          b # lastInst' =>
            /\ client'[b] = client[b]
            /\ opLog'[b] = opLog[b]
            /\ CallsOn(calls', b) = CallsOn(calls, b)
            /\ FetchesOn(fetches', calls', b) = FetchesOn(fetches, calls, b)]_vars

C4_Witness ==
  /\ client[1].status = "ok" /\ client[2].status = "ok"
  /\ client[1].authentication # client[2].authentication
  /\ opLog[1] # <<>> /\ ~BuilderIsDefault(client[1])
  /\ \E k \in 1..Len(calls) :
       /\ calls[k].inst = 2
       /\ calls[k].state = "resolved"
       /\ Len(calls[k].ops) = 1
       /\ Flatten(QueryOf(k)) = "?include=&where[status]=active&order=created_at&limit=10&offset=0"
  /\ BuilderIsDefault(client[2])

(***************************************************************************)
(* Well-formed versions and tokens, stated without the patterns.           *)
(***************************************************************************)
HexChars ==
  {"0", "1", "2", "3", "4", "5", "6", "7", "8", "9", "a", "b", "c", "d", "e", "f"}
DecimalChars == {"0", "1", "2", "3", "4", "5", "6", "7", "8", "9"}

IsYmd(v) ==
  /\ Len(v) = 10
  /\ v[5] = "-" /\ v[8] = "-"
  /\ \A j \in {1, 2, 3, 4, 6, 7, 9, 10} : v[j] \in DecimalChars

IsPcoToken(t) ==
  \/ Len(t) = 64 /\ \A j \in 1..64 : t[j] \in HexChars
  \/ /\ Len(t) = 80
     /\ SubSeq(t, 1, 8) = << "p", "c", "o", "_", "t", "o", "k", "_" >>
     /\ \A j \in 9..80 : t[j] \in HexChars

AuthUsable(config) ==
  \/ IsSome(config.personalAccessToken)
  \/ IsSome(config.token) /\ IsPcoToken(Get(config.token))

FetchesOfInstance(i) == {f \in 1..Len(fetches) : calls[fetches[f].call].inst = i}

(***************************************************************************)
(* C5.  A version of the form YYYY-MM-DD is accepted (the configuration    *)
(* being otherwise valid, construction succeeds) and every request of the  *)
(* client carries X-PCO-API-Version with that value; with any other string *)
(* given as version, construction fails.                                   *)
(***************************************************************************)
C5_VersionChecked ==
  \A i \in Instances :
    (client[i].status # "none" /\ IsSome(client[i].config.version)) =>
      LET version == Get(client[i].config.version)
      IN  IF IsYmd(version)
          THEN AuthUsable(client[i].config) =>
                 /\ client[i].status = "ok"
                 /\ \A f \in FetchesOfInstance(i) :
                      /\ "X-PCO-API-Version" \in DOMAIN fetches[f].headers
                      /\ fetches[f].headers["X-PCO-API-Version"] = version
          ELSE client[i].status = "error"

(***************************************************************************)
(* C6.  OAuth construction (token given, personalAccessToken not, version  *)
(* absent or well-formed) succeeds exactly when the token is 64 characters *)
(* of 0-9a-f, or pco_tok_ followed by 72 characters of 0-9a-f; otherwise   *)
(* it fails with 'Invalid token format'.                                   *)
(***************************************************************************)
C6_TokenChecked ==
  \A i \in Instances :
    LET config == client[i].config
    IN  (/\ client[i].status # "none"
         /\ IsSome(config.token) /\ ~IsSome(config.personalAccessToken)
         /\ ~IsSome(config.version) \/ IsYmd(Get(config.version))) =>
          /\ client[i].status = "ok" <=> IsPcoToken(Get(config.token))
          /\ client[i].status = "error" => client[i].error = "Invalid token format"

C6_Witness ==
  /\ client[1].status = "ok"
  /\ client[1].config.token = Some(LegacyToken)
  /\ client[1].config.version = Some(Chars_version)
  /\ \E f \in FetchesOfInstance(1) : fetches[f].state = "done"

(***************************************************************************)
(* C7.  Construction selects the authentication from the fields present:   *)
(* Basic base64(appId:personalAccessToken) when personalAccessToken is     *)
(* given, else Bearer token when token is given, else it fails; and every  *)
(* request of the instance, whatever was called before it, carries that    *)
(* Authorization value.                                                    *)
(***************************************************************************)
ExpectedAuthorization(config) ==
  IF IsSome(config.personalAccessToken)
  THEN << "B", "a", "s", "i", "c", " " >>
         \o btoa(Text(config.appId) \o << ":" >> \o Get(config.personalAccessToken))
  ELSE << "B", "e", "a", "r", "e", "r", " " >> \o Get(config.token)

C7_Authorization ==
  \A i \in Instances :
    LET config == client[i].config
    IN  client[i].status # "none" =>
          /\ (~IsSome(config.personalAccessToken) /\ ~IsSome(config.token))
               => client[i].status = "error"
          /\ client[i].status = "ok" =>
               /\ IsSome(config.personalAccessToken) \/ IsSome(config.token)
               /\ client[i].authentication = ExpectedAuthorization(config)
               /\ \A f \in FetchesOfInstance(i) :
                    fetches[f].headers["Authorization"] = ExpectedAuthorization(config)
          /\ (client[i].status = "ok" /\ config = PatConfig) =>
               client[i].authentication =
                 << "B", "a", "s", "i", "c", " ", "Y", "X", "B", "w", "O", "n",
                    "N", "l", "Y", "3", "J", "l", "d", "A", "=", "=" >>

C7_Witness ==
  /\ client[1].config = PatConfig
  /\ Len(calls) > 0 /\ Len(calls[1].ops) = 1
  /\ ~BuilderIsDefault(client[1])
  /\ calls[1].state = "rejected"
  /\ fetches[1].headers["Authorization"] = client[1].authentication

(***************************************************************************)
(* C11.  include replaces the list: the query of every terminal action     *)
(* starts with '?include=' followed by the comma-joined relations of the   *)
(* last include call made since the previous buildQuery, in that call's    *)
(* order (nothing when include was not called), whatever earlier include   *)
(* calls passed; and a call of include leaves filters, order and           *)
(* pagination as they were.                                                *)
(***************************************************************************)
IsInclude(op) == op.op = "include"

RECURSIVE CommaJoined(_)
CommaJoined(list) ==
  IF list = <<>> THEN ""
  ELSE IF Len(list) = 1 THEN list[1]
  ELSE list[1] \o "," \o CommaJoined(Tail(list))

FirstAmp(q) == CHOOSE j \in 1..Len(q) : q[j] = "&" /\ \A h \in 1..(j - 1) : q[h] # "&"

\* the text of the query between its '?' and its first '&'
IncludeSegment(q) == Flatten(SubSeq(q, 2, FirstAmp(q) - 1))

IncludeCalled(i) ==
  /\ Len(opLog'[i]) = Len(opLog[i]) + 1
  /\ IsInclude(opLog'[i][Len(opLog'[i])])

C11_IncludeReplaces ==
  /\ [](\A k \in 1..Len(calls) :
          LET is == SelectSeq(calls[k].ops, IsInclude)
          IN  /\ QueryOf(k)[1] = "?"
              /\ IncludeSegment(QueryOf(k))
                   = "include=" \o (IF is = <<>> THEN ""
                                    ELSE CommaJoined(is[Len(is)].relations)))
  /\ [][\A i \in Instances :
          IncludeCalled(i)
            => /\ client'[i].filters = client[i].filters
               /\ client'[i].filtersProto = client[i].filtersProto
               /\ client'[i].order = client[i].order
               /\ client'[i].pagination = client[i].pagination]_vars

C11_Witness ==
  \E k \in 1..Len(calls) :
    /\ Len(calls[k].ops) = 2
    /\ IsInclude(calls[k].ops[1]) /\ calls[k].ops[1].relations = << "emails" >>
    /\ IsInclude(calls[k].ops[2]) /\ calls[k].ops[2].relations = << "phone_numbers" >>
    /\ Flatten(QueryOf(k)) = "?include=phone_numbers&order=created_at&limit=10&offset=0"

(***************************************************************************)
(* C12.  where keeps one entry per field, last write wins: the query of    *)
(* every terminal action has exactly one segment '&where[f]<operator>      *)
(* <value>' for each distinct field f passed to where since the previous   *)
(* buildQuery, with the operator and value of the last where call for f,   *)
(* and no other where segment.                                             *)
(***************************************************************************)
IsWhere(op) == op.op = "where"

WhereFields(ops) == {ops[j].field : j \in {h \in 1..Len(ops) : IsWhere(ops[h])}}

LastWhere(ops, f) ==
  ops[CHOOSE j \in 1..Len(ops) :
        /\ IsWhere(ops[j]) /\ ops[j].field = f
        /\ \A h \in (j + 1)..Len(ops) : ~(IsWhere(ops[h]) /\ ops[h].field = f)]

\* the number of places at which sub occurs in parts
Runs(parts, sub) ==
  Cardinality({at \in 0..(Len(parts) - Len(sub)) :
                 \A j \in 1..Len(sub) : parts[at + j] = sub[j]})

C12_WhereLastWriteWins ==
  \A k \in 1..Len(calls) :
    LET q == QueryOf(k)
        fs == WhereFields(calls[k].ops)
    IN  /\ Occurrences(q, "where[") = Cardinality(fs)
        /\ \A f \in fs :
             LET w == LastWhere(calls[k].ops, f)
             IN  /\ Runs(q, << "where[", f, "]" >>) = 1
                 /\ Contains(q, << "&", "where[", f, "]" >> \o Piece(w.operator)
                                   \o Piece(w.value) \o << "&" >>)

(***************************************************************************)
(* C13.  The query of a request is fixed when its terminal action is       *)
(* called: the recorded query and the URL given to fetch never change      *)
(* afterwards; the builder fields of an instance change only in a step     *)
(* that is a builder call or a terminal action on it, so never when a      *)
(* request completes (resolved, API error, transport failure, unreadable   *)
(* body); and a chain that no other chain overlapped issues the query of   *)
(* its own builder calls, whatever requests are in flight.                 *)
(***************************************************************************)
BuilderFields(cl) == << cl.includes, cl.filters, cl.filtersProto, cl.order, cl.pagination >>

BuilderCalled(i) == Len(opLog'[i]) = Len(opLog[i]) + 1

TerminalOn(i) == Len(calls') = Len(calls) + 1 /\ calls'[Len(calls')].inst = i

\* what every step keeps
FixedAtCall ==
  /\ \A i \in Instances :
       BuilderFields(client'[i]) # BuilderFields(client[i])
         => (BuilderCalled(i) \/ TerminalOn(i))
  /\ \A k \in 1..Len(calls) :
       /\ calls'[k].queries = calls[k].queries
       /\ fetches'[k].url = fetches[k].url

C13_QueryFixedAtCall ==
  /\ [](\A k \in 1..Len(calls) : ~calls[k].overlapped => QueryOf(k) = OwnQuery(k))
  /\ [][FixedAtCall]_vars

\* request k1 is still in flight; since its terminal action a chain made a
\* builder call and then its own terminal action k2, which carries the
\* setting
C13_Witness ==
  \E k1, k2 \in 1..Len(calls) :
    /\ k1 < k2 /\ calls[k1].inst = calls[k2].inst
    /\ calls[k1].state = "pending" /\ fetches[k1].state = "body"
    /\ Len(calls[k2].ops) = 1 /\ IsInclude(calls[k2].ops[1])
    /\ calls[k2].own = calls[k2].ops /\ ~calls[k2].overlapped
    /\ calls[k2].state = "rejected" /\ calls[k2].error = NetworkError
    /\ Flatten(QueryOf(k2)) = "?include=emails&order=created_at&limit=10&offset=0"
    /\ BuilderIsDefault(client[calls[k2].inst])

====
